---- MODULE Spec2Model ----
(***************************************************************************)
(* Payment reconciliation of the chama wallet application:                 *)
(*   - paystack-callback      (supabase/functions/paystack-callback)       *)
(*   - manual-credit-payment  (the edge function the reconciler invokes)   *)
(*   - useStuckPaymentReconciliation (the polling hook)                    *)
(* Every awaited database call of a handler is one atomic step of the      *)
(* request that makes it; requests of different callers interleave between *)
(* their awaits.  A database call may fail (it then returns {error}, it    *)
(* does not throw).                                                        *)
(*                                                                         *)
(* Money is kept in fixed point, 4000 units to one KES (40 units to one    *)
(* minor unit), the resolution at which amount/100, the 2.5% fee and the   *)
(* net amount of the amounts used here are exact.                          *)
(***************************************************************************)
EXTENDS Integers, Sequences, FiniteSets, Bags, TLC

VARIABLES
  secretKey,      \* Deno.env PAYSTACK_SECRET_KEY ("" when not configured)
  user,           \* useAuth().user of the reconciler's client ("" when signed out)
  clock,          \* Date.now(), in minutes
  tx,             \* table mpesa_transactions, by checkout_request_id
  wallets,        \* table user_central_wallets: user_id -> balance
  walletTxs,      \* table wallet_transactions (a bag of rows)
  notifications,  \* table chama_notifications (a bag of rows)
  fees,           \* calls of rpc collect_platform_fee that succeeded (a bag)
  procs,          \* the requests being served by the two edge functions
  stuckPayments,  \* data of the ['stuck-payments'] query (<<>> before the first fetch)
  loops,          \* running creditStuckPayments() calls of the hook's effect
  polls,          \* history: the firings of the refetchInterval timer that were counted, modulo 2
  served,         \* requests the edge functions have accepted so far
  handled,        \* history: the charge events and manual credit calls answered (a bag)
  failures,       \* database calls that returned an error so far
  wallets0,       \* the wallets at the start (history, never written)
  args,           \* the arguments of a computation examined on its own (<<>>: none)
  result          \* what that computation returned (<<>>: not yet)

vars == <<secretKey, user, clock, tx, wallets, walletTxs, notifications, fees,
          procs, stuckPayments, loops, polls, served, handled, failures, wallets0,
          args, result>>

db == <<tx, wallets, walletTxs, notifications, fees>>

(* ------------------------------ bounds ------------------------------- *)

\* requests the edge functions serve at the same time
MaxProcs == 2
\* requests the edge functions serve in one behaviour
MaxRequests == 3
\* database calls that may return an error in one behaviour
MaxFailures == 1
\* minutes the clock runs past its start
MaxClock == 1

(* ------------------------------- data -------------------------------- *)

Procs == 1..MaxProcs

\* the secret the payment processor signs with, and one it does not
ProcessorSecret == "sk_live"
OtherSecret == "sk_forged"

\* the checkout_request_id values requests name: those of the rows, and one
\* that has no row
Refs(t) == DOMAIN t \cup {"ref_none"}

\* 100 KES, the amount of every transaction row, in fixed point
RowAmount == 100 * 4000
\* the same amount as the processor reports it, in minor units
EventAmount == 100 * 100
\* the balance of a wallet that exists at the start (50 KES)
StartBalance == 50 * 4000

Row(u, purpose, created) ==
  [user_id |-> u, purpose |-> purpose, amount |-> RowAmount,
   transaction_type |-> "paystack", status |-> "pending",
   created_at |-> created, result_code |-> -1, result_desc |-> <<>>]

(* ---------- paystack-callback: the message of a failed charge --------- *)

\* a text is the sequence of its characters; the fixed parts of a template
\* literal stand as one element each (the pictograph that opens a line of the
\* source's templates is left out)
UpperCase == <<"A", "B", "C", "D", "E", "F", "G", "H", "I", "J", "K", "L", "M",
               "N", "O", "P", "Q", "R", "S", "T", "U", "V", "W", "X", "Y", "Z">>
LowerCase == <<"a", "b", "c", "d", "e", "f", "g", "h", "i", "j", "k", "l", "m",
               "n", "o", "p", "q", "r", "s", "t", "u", "v", "w", "x", "y", "z">>
DigitChars == <<"0", "1", "2", "3", "4", "5", "6", "7", "8", "9">>

\* the /i flag: letters are compared without their case
ToLower(c) ==
  IF \E i \in DOMAIN UpperCase : UpperCase[i] = c
  THEN LowerCase[CHOOSE i \in DOMAIN UpperCase : UpperCase[i] = c]
  ELSE c

\* \s
SpaceChars == {" ", "\t", "\n", "\r", "\f"}
\* [0-9]
Digits == {DigitChars[i] : i \in DOMAIN DigitChars}
IsDigit(c) == c \in Digits
DigitValue(c) == (CHOOSE i \in DOMAIN DigitChars : DigitChars[i] = c) - 1
\* [0-9,.]
AmountChars == Digits \cup {",", "."}

\* the literal `lit` stands at position i of `text`, case ignored
LiteralAt(text, i, lit) ==
  /\ i + Len(lit) - 1 <= Len(text)
  /\ \A k \in DOMAIN lit : ToLower(text[i + k - 1]) = ToLower(lit[k])

\* the first position from i on whose character is not in `chars` (Len + 1
\* if none): where a greedy run that starts at i ends
RunEnd(text, i, chars) ==
  IF \E j \in i..Len(text) : text[j] \notin chars
  THEN CHOOSE j \in i..Len(text) :
         text[j] \notin chars /\ \A k \in i..(j - 1) : text[k] \in chars
  ELSE Len(text) + 1

Run(text, i, chars) == SubSeq(text, i, RunEnd(text, i, chars) - 1)

BalanceIs == <<"b", "a", "l", "a", "n", "c", "e", " ", "i", "s">>
Ksh == <<"K", "s", "h">>
KES == <<"K", "E", "S">>

\* /balance is\s+(?:Ksh|KES|Ksh\s+)([0-9,.]+)/i tried at position i: the text
\* of the capture group, or the empty text if the pattern does not match there.
\* The alternatives are tried in their order; the runs of \s+ are followed by a
\* character that is no white space, so only the longest run can match.
MatchAt(text, i) ==
  LET s == i + Len(BalanceIs)
      c == RunEnd(text, s, SpaceChars)
      a == c + 3
      b == RunEnd(text, a, SpaceChars)
  IN IF ~(LiteralAt(text, i, BalanceIs) /\ c > s) THEN <<>>
     ELSE IF LiteralAt(text, c, Ksh) /\ Run(text, a, AmountChars) # <<>>
          THEN Run(text, a, AmountChars)
     ELSE IF LiteralAt(text, c, KES) /\ Run(text, a, AmountChars) # <<>>
          THEN Run(text, a, AmountChars)
     ELSE IF LiteralAt(text, c, Ksh) /\ b > a
          THEN Run(text, b, AmountChars)
     ELSE <<>>

\* parsedMessage.match(...): the capture of the leftmost match, if any
BalanceMatch(text) ==
  IF \E i \in DOMAIN text : MatchAt(text, i) # <<>>
  THEN MatchAt(text, CHOOSE i \in DOMAIN text :
                       /\ MatchAt(text, i) # <<>>
                       /\ \A j \in 1..(i - 1) : MatchAt(text, j) = <<>>)
  ELSE <<>>

\* .replace(/,/g, '')
RemoveCommas(text) == SelectSeq(text, LAMBDA c : c # ",")

RECURSIVE ValueOf(_)
ValueOf(digits) ==
  IF digits = <<>> THEN 0
  ELSE 10 * ValueOf(SubSeq(digits, 1, Len(digits) - 1)) + DigitValue(digits[Len(digits)])

\* values of availableBalance: null, NaN, or a number in hundredths
Null == [kind |-> "null", hundredths |-> 0]
NaN == [kind |-> "NaN", hundredths |-> 0]
Number(h) == [kind |-> "number", hundredths |-> h]

\* parseFloat: the longest prefix that is a decimal literal (digits, then
\* maybe a point and digits, one digit at least), NaN if there is none. The
\* value is kept in hundredths, which is exact for the texts with at most
\* two decimals.
ParseFloat(text) ==
  LET whole == Run(text, 1, Digits)
      p == Len(whole) + 1
      decimals == IF p <= Len(text) /\ text[p] = "." THEN Run(text, p + 1, Digits) ELSE <<>>
      shown == SubSeq(decimals \o <<"0", "0">>, 1, 2)
  IN IF whole = <<>> /\ decimals = <<>> THEN NaN
     ELSE Number(100 * ValueOf(whole) + ValueOf(shown))

RECURSIVE DigitsOf(_)
DigitsOf(n) ==
  IF n < 10 THEN <<DigitChars[n + 1]>>
  ELSE DigitsOf(n \div 10) \o <<DigitChars[(n % 10) + 1]>>

\* Number.prototype.toFixed(2)
ToFixed2(x) ==
  IF x.kind = "NaN" THEN <<"N", "a", "N">>
  ELSE DigitsOf(x.hundredths \div 100) \o <<".">>
         \o <<DigitChars[((x.hundredths \div 10) % 10) + 1], DigitChars[(x.hundredths % 10) + 1]>>

\* the absent gateway_response (undefined)
Absent == <<"undefined">>
PaymentFailed == <<"Payment failed">>

\* line 212: gateway_response || 'Payment failed'
ParsedMessage(gateway_response) ==
  IF gateway_response = Absent \/ gateway_response = <<>> THEN PaymentFailed
  ELSE gateway_response

\* lines 213-220
AvailableBalance(parsedMessage) ==
  IF BalanceMatch(parsedMessage) # <<>>
  THEN ParseFloat(RemoveCommas(BalanceMatch(parsedMessage)))
  ELSE Null

\* lines 222-228: the message shown to the user
UserMessage(gateway_response, channel) ==
  LET parsedMessage == ParsedMessage(gateway_response)
      availableBalance == AvailableBalance(parsedMessage)
  IN IF availableBalance # Null
     THEN <<"Payment failed: Insufficient ",
            IF channel = "mobile_money" THEN "mobile money" ELSE "account",
            " balance\nAvailable balance: KES ">>
          \o ToFixed2(availableBalance)
          \o <<"\nPlease top up your account or try a smaller amount.">>
     ELSE IF channel = "mobile_money"
     THEN <<"Mobile Money transaction failed\n">> \o parsedMessage
          \o <<"\nPlease try again or contact your provider.">>
     ELSE parsedMessage

(* ------------------------------ events ------------------------------- *)

ChannelOf(reference) ==
  IF reference = "ref_a" THEN "mobile_money"
  ELSE IF reference = "ref_b" THEN "card" ELSE "bank"

\* the reason the gateway gives when the charge of `reference` fails
GatewayResponseOf(reference) ==
  IF reference = "ref_a" THEN BalanceIs \o <<" ">> \o Ksh \o <<" ", "3", "5", ".", "0", "0">>
  ELSE IF reference = "ref_b" THEN <<"D", "e", "c", "l", "i", "n", "e", "d">>
  ELSE Absent

\* raw request bodies: JSON text of an event envelope, or text that is no JSON
Envelope(event, reference) ==
  [event |-> event,
   data |-> [reference |-> reference, amount |-> EventAmount,
             channel |-> ChannelOf(reference),
             gateway_response |-> GatewayResponseOf(reference),
             customer |-> <<"payer@example.com">>]]

\* the same event with another gateway_response
WithGatewayResponse(envelope, text) == [envelope EXCEPT !.data.gateway_response = text]

\* the same event with data.customer left out
NoCustomer(envelope) == [envelope EXCEPT !.data.customer = <<>>]

\* the bodies sent about the references `refs`: a charge.success and a
\* charge.failed event of each, an event the handler ignores, a charge.success
\* without customer, and text that is no JSON
Bodies(refs) ==
  { <<"json", Envelope(e, r)>> : e \in {"charge.success", "charge.failed"}, r \in refs }
    \cup { <<"json", Envelope("transfer.success", "ref_a")>>,
           <<"json", NoCustomer(Envelope("charge.success", "ref_a"))>>,
           <<"not json">> }

(* ------------------------- pure computations ------------------------- *)

\* createHmac('sha512', key).update(body).digest('hex'): a digest is modelled
\* by the pair it was computed from (two digests are equal exactly when key
\* and body are), the absent header by the empty tuple
HmacSha512Hex(key, body) == <<key, body>>

NoHeader == <<>>

\* a handler that only looks whether the header is there
SignatureMatchesAnyHeader(hash, signature) == signature # NoHeader

\* if (hash !== signature) return 401
SignatureMatches(hash, signature) == hash = signature

\* the x-paystack-signature headers tried with `body`: the processor's own
\* and, for one charge.success body, also none, one made with another key, and
\* the processor's signature of another body
Signatures(body) ==
  {HmacSha512Hex(ProcessorSecret, body)}
    \cup IF body = <<"json", Envelope("charge.success", "ref_a")>>
         THEN {NoHeader, HmacSha512Hex(OtherSecret, body),
               HmacSha512Hex(ProcessorSecret, <<"json", Envelope("charge.failed", "ref_a")>>)}
         ELSE {}

\* JSON.parse(body) throws on text that is no JSON
JsonParses(body) == body[1] = "json"
JsonParse(body) == body[2]

\* amount / 100, in fixed point (4000 units to one KES)
AmountPaid(amount) == amount * 40
\* x * 0.025
PlatformFee(x) == (x * 25) \div 1000
NetAmount(x) == x - PlatformFee(x)

\* a handler that credits whatever the purpose
CreditsWalletAlways(purpose) == TRUE

\* transaction.purpose === 'other' || transaction.purpose === 'wallet_topup'
CreditsWallet(purpose) == purpose \in {"other", "wallet_topup"}

(* ---------------- JavaScript numbers (IEEE-754 doubles) --------------- *)

\* A natural number of up to 135 bits is a tuple of nine 15-bit limbs, least
\* significant first; a positive double is [m, e] with value m * 2^e and m a
\* natural of exactly 53 bits.
LimbBase == 2^15
NatZero == [i \in 1..9 |-> 0]
NatOf(n) ==
  [i \in 1..9 |->
     IF i = 1 THEN n % LimbBase
     ELSE IF i = 2 THEN (n \div LimbBase) % LimbBase
     ELSE IF i = 3 THEN n \div (LimbBase * LimbBase)
     ELSE 0]

RECURSIVE CarryFrom(_, _, _)
CarryFrom(f, i, c) ==
  IF i > Len(f) THEN <<>>
  ELSE <<(f[i] + c) % LimbBase>> \o CarryFrom(f, i + 1, (f[i] + c) \div LimbBase)

NatAdd(a, b) == CarryFrom([i \in 1..9 |-> a[i] + b[i]], 1, 0)

RECURSIVE BorrowFrom(_, _, _, _)
BorrowFrom(a, b, i, c) ==
  IF i > Len(a) THEN <<>>
  ELSE LET d == a[i] - b[i] - c
       IN IF d < 0 THEN <<d + LimbBase>> \o BorrowFrom(a, b, i + 1, 1)
          ELSE <<d>> \o BorrowFrom(a, b, i + 1, 0)

\* a - b, for a >= b
NatSub(a, b) == BorrowFrom(a, b, 1, 0)

NatShiftLimbs(a, k) == [i \in 1..9 |-> IF i > k THEN a[i - k] ELSE 0]

RECURSIVE MulFrom(_, _, _)
MulFrom(a, b, j) ==
  IF j > Len(b) THEN NatZero
  ELSE NatAdd(NatShiftLimbs(CarryFrom([i \in 1..9 |-> a[i] * b[j]], 1, 0), j - 1),
              MulFrom(a, b, j + 1))

NatMul(a, b) == MulFrom(a, b, 1)

\* a * 2^s and floor(a / 2^s)
NatShiftLeft(a, s) ==
  LET q == s \div 15
      r == s % 15
  IN [i \in 1..9 |->
        (IF i - q >= 1 THEN (a[i - q] * 2^r) % LimbBase ELSE 0)
        + (IF i - q - 1 >= 1 THEN a[i - q - 1] \div 2^(15 - r) ELSE 0)]

NatShiftRight(a, s) ==
  LET q == s \div 15
      r == s % 15
  IN [i \in 1..9 |->
        (IF i + q <= 9 THEN a[i + q] \div 2^r ELSE 0)
        + (IF i + q + 1 <= 9 THEN (a[i + q + 1] % 2^r) * 2^(15 - r) ELSE 0)]

RECURSIVE BitsOf(_)
BitsOf(n) == IF n = 0 THEN 0 ELSE 1 + BitsOf(n \div 2)

RECURSIVE TopLimb(_, _)
TopLimb(a, i) == IF i = 0 \/ a[i] # 0 THEN i ELSE TopLimb(a, i - 1)

NatBitLen(a) ==
  LET t == TopLimb(a, 9) IN IF t = 0 THEN 0 ELSE 15 * (t - 1) + BitsOf(a[t])

RECURSIVE CmpFrom(_, _, _)
CmpFrom(a, b, i) ==
  IF i = 0 THEN 0
  ELSE IF a[i] > b[i] THEN 1
  ELSE IF a[i] < b[i] THEN -1
  ELSE CmpFrom(a, b, i - 1)

NatCmp(a, b) == CmpFrom(a, b, 9)

RECURSIVE DivFrom(_, _, _, _)
DivFrom(a, d, i, rem) ==
  IF i = 0 THEN [q |-> <<>>, r |-> rem]
  ELSE LET cur == rem * LimbBase + a[i]
           rest == DivFrom(a, d, i - 1, cur % d)
       IN [q |-> Append(rest.q, cur \div d), r |-> rest.r]

\* floor(a / d) and a mod d, for a divisor below 2^15
NatDivSmall(a, d) == DivFrom(a, d, 9, 0)

\* the double nearest to n * 2^e (plus a fraction of 2^e when `sticky`), ties
\* to even: the rounding of every arithmetic operation on doubles
RoundToDouble(n, e, sticky) ==
  LET len == NatBitLen(n) IN
  IF len <= 53
  THEN [m |-> NatShiftLeft(n, 53 - len), e |-> e - (53 - len)]
  ELSE LET s == len - 53
           q == NatShiftRight(n, s)
           rem == NatSub(n, NatShiftLeft(q, s))
           half == NatShiftLeft(NatOf(1), s - 1)
           c == NatCmp(rem, half)
           up == c > 0 \/ (c = 0 /\ (sticky \/ q[1] % 2 = 1))
           q2 == IF up THEN NatAdd(q, NatOf(1)) ELSE q
       IN IF NatBitLen(q2) > 53
          THEN [m |-> NatShiftRight(q2, 1), e |-> e + s + 1]
          ELSE [m |-> q2, e |-> e + s]

\* n / d for integers 0 < n < 2^31 and 0 < d < 2^15, as JavaScript computes it
DoubleDiv(n, d) ==
  LET qr == NatDivSmall(NatShiftLeft(NatOf(n), 70), d)
  IN RoundToDouble(qr.q, -70, qr.r # 0)

DoubleMul(x, y) == RoundToDouble(NatMul(x.m, y.m), x.e + y.e, FALSE)

\* the two mantissas brought to the smaller exponent
Aligned(x, y) ==
  LET e == IF x.e < y.e THEN x.e ELSE y.e
  IN [x |-> NatShiftLeft(x.m, x.e - e), y |-> NatShiftLeft(y.m, y.e - e), e |-> e]

DoubleAdd(x, y) ==
  LET a == Aligned(x, y) IN RoundToDouble(NatAdd(a.x, a.y), a.e, FALSE)

\* x - y, for x > y
DoubleSub(x, y) ==
  LET a == Aligned(x, y) IN RoundToDouble(NatSub(a.x, a.y), a.e, FALSE)

\* |x - y| <= one unit in the last place of x
WithinOneUlp(x, y) ==
  LET a == Aligned(x, y)
      diff == IF NatCmp(a.x, a.y) >= 0 THEN NatSub(a.x, a.y) ELSE NatSub(a.y, a.x)
  IN NatCmp(diff, NatShiftLeft(NatOf(1), x.e - a.e)) <= 0

\* a fee of 25% instead of 2.5%
PlatformFeeDoubleQuarter(paid) == DoubleMul(paid, DoubleDiv(25, 100))

\* const amountPaid = amount / 100 (line 58)
AmountPaidDouble(amount) == DoubleDiv(amount, 100)
\* const platformFee = amountPaid * 0.025 (line 59)
PlatformFeeDouble(paid) == DoubleMul(paid, DoubleDiv(25, 1000))
\* const netAmount = amountPaid - platformFee (line 60)
NetAmountDouble(paid, fee) == DoubleSub(paid, fee)

(* ----------------------------- database ------------------------------ *)

\* a lookup that lost its .eq() filter: some row, whatever the reference
SelectTxAnyRow(t, reference) == <<t[CHOOSE r \in DOMAIN t : TRUE]>>

\* .from('mpesa_transactions').select().eq('checkout_request_id', r).single():
\* the row in a one-element tuple, or the empty tuple (data null, error set)
SelectTx(t, reference) ==
  IF reference \in DOMAIN t THEN <<t[reference]>> ELSE <<>>

\* an update that lost its .eq() filter: every row of the table
UpdateTxEveryRow(t, reference, status, code, desc) ==
  [r \in DOMAIN t |->
     [t[r] EXCEPT !.status = status, !.result_code = code, !.result_desc = desc]]

\* .update({status, result_code, result_desc}).eq('checkout_request_id', r):
\* every row that matches
UpdateTx(t, reference, status, code, desc) ==
  [r \in DOMAIN t |->
     IF r = reference
     THEN [t[r] EXCEPT !.status = status, !.result_code = code, !.result_desc = desc]
     ELSE t[r]]

\* .from('user_central_wallets').select('*').eq('user_id', u).single()
SelectWallet(w, u) == IF u \in DOMAIN w THEN <<w[u]>> ELSE <<>>

\* .update({balance}).eq('user_id', u)
UpdateWallet(w, u, balance) ==
  [x \in DOMAIN w |-> IF x = u THEN balance ELSE w[x]]

Put(bag, row) == bag (+) SetToBag({row})

(* ----------------------------- requests ------------------------------ *)

\* a request slot of the edge runtime; the fields a handler has not set yet
\* hold these values
Idle ==
  [kind |-> "idle", pc |-> "idle", body |-> <<>>, signature |-> NoHeader,
   event |-> "", reference |-> "", amount |-> 0, channel |-> "", userMessage |-> <<>>,
   txn |-> <<>>, wallet |-> <<>>,
   status |-> 0, text |-> "", success |-> FALSE, respAmount |-> 0, newBalance |-> 0,
   feeCalls |-> <<>>,
   credited |-> FALSE, logged |-> FALSE, marked |-> FALSE, invoked |-> FALSE]

\* the response of a handler
Respond(pr, status) ==
  [pr EXCEPT !.pc = "done", !.status = status]

\* return new Response('OK', {status: 200}) (line 275)
Ok(pr) == [Respond(pr, 200) EXCEPT !.text = "OK"]

\* a catch block that reports the error to the caller
CatchSurfacesError(pr) == [Respond(pr, 500) EXCEPT !.text = "Internal error"]

\* the catch block (lines 277-280): whatever was thrown, 200 OK
Catch(pr) == [Respond(pr, 200) EXCEPT !.text = "OK"]

Running(p) == procs[p].kind # "idle" /\ procs[p].pc # "done"

\* a database call either succeeds or returns an error
Outcomes == {TRUE} \cup (IF failures < MaxFailures THEN {FALSE} ELSE {})
Count(ok) == failures' = IF ok THEN failures ELSE failures + 1

\* the history of what was handled: a charge event enters it when its handler
\* responds, a manual credit call when it is answered (200 or 400)
Log(h, pr) ==
  IF pr.pc = "done"
  THEN h (+) SetToBag({<<IF pr.kind = "manual" THEN "manual" ELSE pr.event, pr.reference>>})
  ELSE h
Logs(p) == handled' = Log(handled, procs'[p])

\* the slot a new request takes: the first free one
FirstIdle(p) ==
  /\ procs[p].kind = "idle"
  /\ \A q \in Procs : q < p => procs[q].kind # "idle"

Client == <<user, clock, stuckPayments, loops, polls>>
Env == <<secretKey, wallets0, args, result>>

(* ------------------- paystack-callback: the handler ------------------ *)

\* lines 17-66 and 198-228: a POST arrives with a raw body and (maybe) an
\* x-paystack-signature header; everything up to the first database call
CallbackArrive(p, body, signature) ==
  LET pr == [Idle EXCEPT !.kind = "callback", !.body = body, !.signature = signature]
      hash == HmacSha512Hex(secretKey, body)
      parsed == JsonParse(body)
  IN
  /\ FirstIdle(p)
  /\ served < MaxRequests
  /\ procs' = [procs EXCEPT ![p] =
       IF secretKey = ""
       THEN [Respond(pr, 500) EXCEPT !.text = "Configuration error"]
       ELSE IF ~SignatureMatches(hash, signature)
       THEN [Respond(pr, 401) EXCEPT !.text = "Invalid signature"]
       ELSE IF ~JsonParses(body) THEN Catch(pr)
       ELSE LET ev == [pr EXCEPT !.event = parsed.event,
                                 !.reference = parsed.data.reference,
                                 !.amount = parsed.data.amount,
                                 !.channel = parsed.data.channel]
            IN IF parsed.event = "charge.success"
               THEN IF parsed.data.customer = <<>> THEN Catch(ev)  \* customer.email (line 65)
                    ELSE [ev EXCEPT !.pc = "cs_select"]
               ELSE IF parsed.event = "charge.failed"
               THEN [ev EXCEPT !.pc = "cf_update",
                               !.userMessage = UserMessage(parsed.data.gateway_response,
                                                           parsed.data.channel)]
               ELSE Ok(ev)]
  /\ served' = served + 1
  /\ UNCHANGED <<db, Client, Env, failures, handled>>

\* lines 67-75: look the transaction up by reference
SuccessSelectTx(p) ==
  LET pr == procs[p] IN
  /\ pr.kind = "callback" /\ pr.pc = "cs_select"
  /\ \E ok \in Outcomes :
       /\ Count(ok)
       /\ procs' = [procs EXCEPT ![p] =
            [pr EXCEPT !.pc = "cs_update",
                       !.txn = IF ok THEN SelectTx(tx, pr.reference) ELSE <<>>]]
  /\ Logs(p)
  /\ UNCHANGED <<db, Client, Env, served>>

\* a handler that credits only a transaction it found pending
AfterSuccessUpdateOnce(pr) ==
  IF pr.txn = <<>> THEN Ok(pr)
  ELSE IF CreditsWallet(pr.txn[1].purpose) /\ pr.txn[1].status = "pending"
       THEN [pr EXCEPT !.pc = "cs_wallet_select"]
  ELSE [pr EXCEPT !.pc = "cs_fee"]

\* a handler that collects the fee only after it credited the wallet
AfterSuccessUpdateSkipsFee(pr) ==
  IF pr.txn = <<>> THEN Ok(pr)
  ELSE IF CreditsWallet(pr.txn[1].purpose) THEN [pr EXCEPT !.pc = "cs_wallet_select"]
  ELSE Ok(pr)

\* where the charge.success branch goes after the status update (lines 95-99)
AfterSuccessUpdate(pr) ==
  IF pr.txn = <<>> THEN Ok(pr)
  ELSE IF CreditsWallet(pr.txn[1].purpose) THEN [pr EXCEPT !.pc = "cs_wallet_select"]
  ELSE [pr EXCEPT !.pc = "cs_fee"]

\* lines 77-93: mark the transaction success, whatever the lookup gave
SuccessUpdateTx(p) ==
  LET pr == procs[p] IN
  /\ pr.kind = "callback" /\ pr.pc = "cs_update"
  /\ \E ok \in Outcomes :
       /\ Count(ok)
       /\ tx' = IF ok THEN UpdateTx(tx, pr.reference, "success", 0,
                                     <<"Payment via ", pr.channel, " successful">>)
                 ELSE tx
       /\ procs' = [procs EXCEPT ![p] =
            AfterSuccessUpdate([pr EXCEPT !.marked = ok /\ pr.reference \in DOMAIN tx])]
  /\ Logs(p)
  /\ UNCHANGED <<wallets, walletTxs, notifications, fees, Client, Env, served>>

\* lines 101-111: fetch the central wallet of the transaction's user
SuccessSelectWallet(p) ==
  LET pr == procs[p] IN
  /\ pr.kind = "callback" /\ pr.pc = "cs_wallet_select"
  /\ \E ok \in Outcomes :
       /\ Count(ok)
       /\ LET w == IF ok THEN SelectWallet(wallets, pr.txn[1].user_id) ELSE <<>>
          IN procs' = [procs EXCEPT ![p] =
               [pr EXCEPT !.wallet = w,
                          !.pc = IF w = <<>> THEN "cs_wallet_insert" ELSE "cs_wallet_update"]]
  /\ Logs(p)
  /\ UNCHANGED <<db, Client, Env, served>>

\* lines 111-124: create the wallet with balance 0; the insert returns an error
\* when the user already has one (user_id is the wallet's key)
SuccessInsertWallet(p) ==
  LET pr == procs[p]
      u == pr.txn[1].user_id
  IN
  /\ pr.kind = "callback" /\ pr.pc = "cs_wallet_insert"
  /\ \E ok \in Outcomes :
       /\ Count(ok)
       /\ IF ok /\ u \notin DOMAIN wallets
          THEN /\ wallets' = (u :> 0) @@ wallets
               /\ procs' = [procs EXCEPT ![p] =
                    [pr EXCEPT !.wallet = <<0>>, !.pc = "cs_wallet_update"]]
          ELSE /\ wallets' = wallets
               /\ procs' = [procs EXCEPT ![p] = [pr EXCEPT !.pc = "cs_fee"]]
  /\ Logs(p)
  /\ UNCHANGED <<tx, walletTxs, notifications, fees, Client, Env, served>>

\* lines 126-146: balance := the balance read + the net amount
SuccessUpdateWallet(p) ==
  LET pr == procs[p]
      u == pr.txn[1].user_id
      net == NetAmount(AmountPaid(pr.amount))
  IN
  /\ pr.kind = "callback" /\ pr.pc = "cs_wallet_update"
  /\ \E ok \in Outcomes :
       /\ Count(ok)
       /\ wallets' = IF ok THEN UpdateWallet(wallets, u, pr.wallet[1] + net) ELSE wallets
       /\ procs' = [procs EXCEPT ![p] =
            IF ok THEN [pr EXCEPT !.pc = "cs_wtx", !.credited = TRUE, !.respAmount = net]
            ELSE [pr EXCEPT !.pc = "cs_fee"]]
  /\ Logs(p)
  /\ UNCHANGED <<tx, walletTxs, notifications, fees, Client, Env, served>>

\* lines 147-159: record the wallet transaction (the result is not looked at)
SuccessInsertWalletTx(p) ==
  LET pr == procs[p]
      row == [user_id |-> pr.txn[1].user_id, type |-> "deposit",
              amount |-> NetAmount(AmountPaid(pr.amount)), status |-> "completed",
              reference_id |-> pr.reference, payment_method |-> pr.channel]
  IN
  /\ pr.kind = "callback" /\ pr.pc = "cs_wtx"
  /\ \E ok \in Outcomes :
       /\ Count(ok)
       /\ walletTxs' = IF ok THEN Put(walletTxs, row) ELSE walletTxs
       /\ procs' = [procs EXCEPT ![p] = [pr EXCEPT !.pc = "cs_notify", !.logged = ok]]
  /\ Logs(p)
  /\ UNCHANGED <<tx, wallets, notifications, fees, Client, Env, served>>

\* lines 161-178: the success notification (the result is not looked at)
SuccessNotify(p) ==
  LET pr == procs[p]
      row == [user_id |-> pr.txn[1].user_id, type |-> "payment_success",
              reference |-> pr.reference, amount |-> NetAmount(AmountPaid(pr.amount))]
  IN
  /\ pr.kind = "callback" /\ pr.pc = "cs_notify"
  /\ \E ok \in Outcomes :
       /\ Count(ok)
       /\ notifications' = IF ok THEN Put(notifications, row) ELSE notifications
       /\ procs' = [procs EXCEPT ![p] = [pr EXCEPT !.pc = "cs_fee"]]
  /\ Logs(p)
  /\ UNCHANGED <<tx, wallets, walletTxs, fees, Client, Env, served>>

\* lines 183-196 and 275: rpc collect_platform_fee, then 200 OK
SuccessCollectFee(p) ==
  LET pr == procs[p]
      call == [p_user_id |-> pr.txn[1].user_id,
               p_amount |-> PlatformFee(AmountPaid(pr.amount)),
               p_payment_reference |-> pr.reference]
  IN
  /\ pr.kind = "callback" /\ pr.pc = "cs_fee"
  /\ \E ok \in Outcomes :
       /\ Count(ok)
       /\ fees' = IF ok THEN Put(fees, call) ELSE fees
       /\ procs' = [procs EXCEPT ![p] = Ok([pr EXCEPT !.feeCalls = Append(@, call)])]
  /\ Logs(p)
  /\ UNCHANGED <<tx, wallets, walletTxs, notifications, Client, Env, served>>

\* lines 230-243: mark the transaction failed
FailedUpdateTx(p) ==
  LET pr == procs[p] IN
  /\ pr.kind = "callback" /\ pr.pc = "cf_update"
  /\ \E ok \in Outcomes :
       /\ Count(ok)
       /\ tx' = IF ok THEN UpdateTx(tx, pr.reference, "failed", 1, pr.userMessage) ELSE tx
       /\ procs' = [procs EXCEPT ![p] =
            [pr EXCEPT !.pc = "cf_select", !.marked = ok /\ pr.reference \in DOMAIN tx]]
  /\ Logs(p)
  /\ UNCHANGED <<wallets, walletTxs, notifications, fees, Client, Env, served>>

\* lines 245-253: fetch the transaction's user
FailedSelectTx(p) ==
  LET pr == procs[p] IN
  /\ pr.kind = "callback" /\ pr.pc = "cf_select"
  /\ \E ok \in Outcomes :
       /\ Count(ok)
       /\ LET t == IF ok THEN SelectTx(tx, pr.reference) ELSE <<>>
          IN procs' = [procs EXCEPT ![p] =
               IF t # <<>> /\ t[1].user_id # ""
               THEN [pr EXCEPT !.txn = t, !.pc = "cf_notify"]
               ELSE Ok(pr)]
  /\ Logs(p)
  /\ UNCHANGED <<db, Client, Env, served>>

\* lines 254-275: the failure notification, then 200 OK
FailedNotify(p) ==
  LET pr == procs[p]
      row == [user_id |-> pr.txn[1].user_id, type |-> "payment_failed",
              message |-> pr.userMessage,
              reference |-> pr.reference, amount |-> pr.txn[1].amount]
  IN
  /\ pr.kind = "callback" /\ pr.pc = "cf_notify"
  /\ \E ok \in Outcomes :
       /\ Count(ok)
       /\ notifications' = IF ok THEN Put(notifications, row) ELSE notifications
       /\ procs' = [procs EXCEPT ![p] = Ok(pr)]
  /\ Logs(p)
  /\ UNCHANGED <<tx, wallets, walletTxs, fees, Client, Env, served>>

(* --------------------- manual-credit-payment: handler ---------------- *)

\* a POST {reference}; `invoked` tells the reconciler's calls from other callers'
ManualRequest(reference, invoked) ==
  [Idle EXCEPT !.kind = "manual", !.pc = "mc_select",
               !.reference = reference, !.invoked = invoked]

\* the catch block (lines 117-124): 400 {success: false, error}
ManualFail(pr) == [Respond(pr, 400) EXCEPT !.success = FALSE]

\* any caller other than the reconciler posts a reference
ManualArrive(p, reference) ==
  /\ FirstIdle(p)
  /\ served < MaxRequests
  /\ procs' = [procs EXCEPT ![p] = ManualRequest(reference, FALSE)]
  /\ served' = served + 1
  /\ UNCHANGED <<db, Client, Env, failures, handled>>

\* a lookup that also refuses a transaction that is no longer pending
TxNotFoundOrSettled(ok, t) == ~ok \/ t = <<>> \/ t[1].status # "pending"

\* if (txError || !transaction) throw new Error('Transaction not found')
TxNotFound(ok, t) == ~ok \/ t = <<>>

\* lines 23-36: load the transaction by reference
ManualSelectTx(p) ==
  LET pr == procs[p] IN
  /\ pr.kind = "manual" /\ pr.pc = "mc_select"
  /\ \E ok \in Outcomes :
       /\ Count(ok)
       /\ LET t == SelectTx(tx, pr.reference)
          IN procs' = [procs EXCEPT ![p] =
               IF TxNotFound(ok, t) THEN ManualFail(pr)
               ELSE [pr EXCEPT !.txn = t, !.amount = t[1].amount,
                               !.pc = "mc_wallet_select"]]
  /\ Logs(p)
  /\ UNCHANGED <<db, Client, Env, served>>

\* lines 38-49: fetch the wallet of the transaction's user
ManualSelectWallet(p) ==
  LET pr == procs[p] IN
  /\ pr.kind = "manual" /\ pr.pc = "mc_wallet_select"
  /\ \E ok \in Outcomes :
       /\ Count(ok)
       /\ LET w == IF ok THEN SelectWallet(wallets, pr.txn[1].user_id) ELSE <<>>
          IN procs' = [procs EXCEPT ![p] =
               [pr EXCEPT !.wallet = w,
                          !.pc = IF w = <<>> THEN "mc_wallet_insert" ELSE "mc_wallet_update"]]
  /\ Logs(p)
  /\ UNCHANGED <<db, Client, Env, served>>

\* lines 49-60: create the wallet with balance 0, or throw
ManualInsertWallet(p) ==
  LET pr == procs[p]
      u == pr.txn[1].user_id
  IN
  /\ pr.kind = "manual" /\ pr.pc = "mc_wallet_insert"
  /\ \E ok \in Outcomes :
       /\ Count(ok)
       /\ IF ok /\ u \notin DOMAIN wallets
          THEN /\ wallets' = (u :> 0) @@ wallets
               /\ procs' = [procs EXCEPT ![p] =
                    [pr EXCEPT !.wallet = <<0>>, !.pc = "mc_wallet_update"]]
          ELSE /\ wallets' = wallets
               /\ procs' = [procs EXCEPT ![p] = ManualFail(pr)]
  /\ Logs(p)
  /\ UNCHANGED <<tx, walletTxs, notifications, fees, Client, Env, served>>

\* an update that adds to the balance the row holds when it is written
\* (balance = balance + net in one statement)
ManualUpdateWalletInPlace(p) ==
  LET pr == procs[p]
      u == pr.txn[1].user_id
  IN
  /\ pr.kind = "manual" /\ pr.pc = "mc_wallet_update"
  /\ wallets' = UpdateWallet(wallets, u, wallets[u] + NetAmount(pr.amount))
  /\ procs' = [procs EXCEPT ![p] = [pr EXCEPT !.pc = "mc_wtx", !.credited = TRUE]]
  /\ UNCHANGED <<tx, walletTxs, notifications, fees, Client, Env, served, failures, handled>>

\* lines 62-73: balance := the balance read + the net amount, or throw
ManualUpdateWallet(p) ==
  LET pr == procs[p]
      u == pr.txn[1].user_id
      net == NetAmount(pr.amount)
  IN
  /\ pr.kind = "manual" /\ pr.pc = "mc_wallet_update"
  /\ \E ok \in Outcomes :
       /\ Count(ok)
       /\ wallets' = IF ok THEN UpdateWallet(wallets, u, pr.wallet[1] + net) ELSE wallets
       /\ procs' = [procs EXCEPT ![p] =
            IF ok THEN [pr EXCEPT !.pc = "mc_wtx", !.credited = TRUE]
            ELSE ManualFail(pr)]
  /\ Logs(p)
  /\ UNCHANGED <<tx, walletTxs, notifications, fees, Client, Env, served>>

\* lines 75-86: record the wallet transaction (the result is not looked at)
ManualInsertWalletTx(p) ==
  LET pr == procs[p]
      row == [user_id |-> pr.txn[1].user_id, type |-> "deposit",
              amount |-> NetAmount(pr.amount), status |-> "completed",
              reference_id |-> pr.reference, payment_method |-> "paystack"]
  IN
  /\ pr.kind = "manual" /\ pr.pc = "mc_wtx"
  /\ \E ok \in Outcomes :
       /\ Count(ok)
       /\ walletTxs' = IF ok THEN Put(walletTxs, row) ELSE walletTxs
       /\ procs' = [procs EXCEPT ![p] = [pr EXCEPT !.pc = "mc_update", !.logged = ok]]
  /\ Logs(p)
  /\ UNCHANGED <<tx, wallets, notifications, fees, Client, Env, served>>

\* the 200 response (lines 107-115): {success, message, amount, newBalance}
ManualSucceed(pr) ==
  [Respond(pr, 200) EXCEPT !.success = TRUE,
                           !.respAmount = NetAmount(pr.amount),
                           !.newBalance = pr.wallet[1] + NetAmount(pr.amount)]

\* lines 88-115: mark the transaction success (the result is not looked at)
\* and respond 200
ManualUpdateTx(p) ==
  LET pr == procs[p] IN
  /\ pr.kind = "manual" /\ pr.pc = "mc_update"
  /\ \E ok \in Outcomes :
       /\ Count(ok)
       /\ tx' = IF ok THEN UpdateTx(tx, pr.reference, "success", 0,
                                     <<"Payment verified and credited manually">>)
                 ELSE tx
       /\ procs' = [procs EXCEPT ![p] = ManualSucceed([pr EXCEPT !.marked = ok])]
  /\ Logs(p)
  /\ UNCHANGED <<wallets, walletTxs, notifications, fees, Client, Env, served>>

\* the caller of a request that was not the reconciler's takes the response
Retire(p) ==
  /\ procs[p].pc = "done"
  /\ ~procs[p].invoked
  /\ procs' = [procs EXCEPT ![p] = Idle]
  /\ UNCHANGED <<db, Client, Env, served, failures, handled>>

(* -------------------- useStuckPaymentReconciliation ------------------ *)

\* 5 * 60 * 1000 ms, in minutes
FiveMinutes == 5

RefOrder == <<"ref_a", "ref_b">>

\* a query that also takes the rows created exactly five minutes ago
StuckQueryAtFiveMinutes(t, u, now) ==
  LET hit(r) == /\ r \in DOMAIN t
                /\ t[r].user_id = u
                /\ t[r].transaction_type = "paystack"
                /\ t[r].status = "pending"
                /\ t[r].created_at <= now - FiveMinutes
  IN SelectSeq(RefOrder, hit)

\* the rows the query selects, as the references the effect reads from them
StuckQuery(t, u, now) ==
  LET fiveMinutesAgo == now - FiveMinutes
      hit(r) == /\ r \in DOMAIN t
                /\ t[r].user_id = u
                /\ t[r].transaction_type = "paystack"
                /\ t[r].status = "pending"
                /\ t[r].created_at < fiveMinutesAgo
  IN SelectSeq(RefOrder, hit)

\* queryFn (lines 15-30): nothing without a user
QueryFn(t, u, now) == IF u = "" THEN <<>> ELSE StuckQuery(t, u, now)

\* a creditStuckPayments() call over `items`, about to invoke for the first
\* one; calls and answers are its history: the references it invoked the
\* function with and the statuses it got back
NewLoop(items) ==
  [items |-> items, i |-> 1, pc |-> "invoke", proc |-> 0,
   calls |-> <<>>, answers |-> <<>>]

\* the effect runs when the query's data changed, and returns at once on an
\* empty list
Effect(ls, old, new) ==
  IF new # old /\ Len(new) # 0 THEN Append(ls, NewLoop(new)) ELSE ls

\* the next iteration of the for loop, or its end
Advance(ls, l) ==
  IF ls[l].i < Len(ls[l].items)
  THEN [ls EXCEPT ![l] = [@ EXCEPT !.i = @ + 1, !.pc = "invoke", !.proc = 0]]
  ELSE SubSeq(ls, 1, l - 1) \o SubSeq(ls, l + 1, Len(ls))

\* the clock of the browser
Tick ==
  /\ user # ""
  /\ clock < FiveMinutes + MaxClock
  /\ clock' = clock + 1
  /\ UNCHANGED <<db, procs, user, stuckPayments, loops, polls, Env, served, failures, handled>>

\* queryFn runs (lines 13-33): a failed query keeps the data
RunQueryFn ==
  /\ user # ""
  /\ \E ok \in Outcomes :
       /\ Count(ok)
       /\ LET data == IF ok THEN QueryFn(tx, user, clock) ELSE stuckPayments
          IN /\ stuckPayments' = data
             /\ loops' = Effect(loops, stuckPayments, data)
  /\ UNCHANGED <<db, procs, user, clock, Env, served, handled>>

\* the query runs on the 30 s interval
Fetch == RunQueryFn /\ UNCHANGED polls

\* the same, with the firings of the interval timer counted
Poll == RunQueryFn /\ polls' = (polls + 1) % 2

\* supabase.functions.invoke('manual-credit-payment', {body: {reference}})
LoopInvoke(l, p) ==
  /\ l \in DOMAIN loops
  /\ loops[l].pc = "invoke"
  /\ FirstIdle(p)
  /\ served < MaxRequests
  /\ procs' = [procs EXCEPT ![p] = ManualRequest(loops[l].items[loops[l].i], TRUE)]
  /\ loops' = [loops EXCEPT ![l] =
       [@ EXCEPT !.pc = "await", !.proc = p,
                 !.calls = Append(@, loops[l].items[loops[l].i])]]
  /\ served' = served + 1
  /\ UNCHANGED <<db, user, clock, stuckPayments, polls, Env, failures, handled>>

\* a loop that gives up at the first error
ReceivedStopsOnError(ls, l, pr) ==
  LET heard == [ls EXCEPT ![l] = [@ EXCEPT !.answers = Append(@, pr.status)]]
  IN IF pr.status = 200 /\ pr.success
     THEN [heard EXCEPT ![l] = [@ EXCEPT !.pc = "refetch", !.proc = 0]]
     ELSE SubSeq(ls, 1, l - 1) \o SubSeq(ls, l + 1, Len(ls))

\* lines 46-60: an error is logged and the loop goes on; a success is
\* toasted and the queries are invalidated
Received(ls, l, pr) ==
  LET heard == [ls EXCEPT ![l] = [@ EXCEPT !.answers = Append(@, pr.status)]]
  IN IF pr.status = 200 /\ pr.success
     THEN [heard EXCEPT ![l] = [@ EXCEPT !.pc = "refetch", !.proc = 0]]
     ELSE Advance(heard, l)

\* the response of the invoked function reaches the loop
LoopReceive(l) ==
  /\ l \in DOMAIN loops
  /\ loops[l].pc = "await"
  /\ LET p == loops[l].proc IN
       /\ procs[p].pc = "done"
       /\ procs' = [procs EXCEPT ![p] = Idle]
       /\ loops' = Received(loops, l, procs[p])
  /\ UNCHANGED <<db, user, clock, stuckPayments, polls, Env, served, failures, handled>>

\* await queryClient.invalidateQueries({queryKey: ['stuck-payments']}): the
\* query runs again, then the loop goes on
LoopRefetch(l) ==
  /\ l \in DOMAIN loops
  /\ loops[l].pc = "refetch"
  /\ \E ok \in Outcomes :
       /\ Count(ok)
       /\ LET data == IF ok THEN QueryFn(tx, user, clock) ELSE stuckPayments
          IN /\ stuckPayments' = data
             /\ loops' = Effect(Advance(loops, l), stuckPayments, data)
  /\ UNCHANGED <<db, procs, user, clock, polls, Env, served, handled>>

(* --------------------------- specification --------------------------- *)

\* the states the deployment starts in: the signing secret configured or not,
\* a user signed in or not, one of the tables, the user's wallet there or not
World(key, u, table, w) ==
  /\ secretKey = key
  /\ user = u
  /\ tx = table
  /\ wallets = w
  /\ wallets0 = w
  /\ clock = FiveMinutes
  /\ walletTxs = EmptyBag
  /\ notifications = EmptyBag
  /\ fees = EmptyBag
  /\ procs = [p \in Procs |-> Idle]
  /\ stuckPayments = <<>>
  /\ polls = 0
  /\ loops = <<>>
  /\ served = 0
  /\ handled = EmptyBag

OneRow(purpose) == "ref_a" :> Row("u1", purpose, 0)
TwoRows == ("ref_a" :> Row("u1", "wallet_topup", 0)) @@ ("ref_b" :> Row("u1", "other", 1))
HasWallet == "u1" :> StartBalance
NoWallets == <<>>

\* no computation is examined on its own
NoArgs == args = <<>> /\ result = <<>>

Init ==
  /\ failures = 0
  /\ NoArgs
  /\ \/ World(ProcessorSecret, "u1", OneRow("wallet_topup"), HasWallet)
     \/ World(ProcessorSecret, "", OneRow("wallet_topup"), NoWallets)
     \/ World(ProcessorSecret, "", OneRow("other"), HasWallet)
     \/ World(ProcessorSecret, "", OneRow("contribution"), NoWallets)
     \/ World(ProcessorSecret, "", TwoRows, HasWallet)
     \/ World("", "", OneRow("wallet_topup"), HasWallet)

\* no request is being served and no response is waiting to be taken
Quiet == \A p \in Procs : procs[p].kind = "idle"

ManualStep(p) ==
  \/ ManualSelectTx(p)
  \/ ManualSelectWallet(p)
  \/ ManualInsertWallet(p)
  \/ ManualUpdateWallet(p)
  \/ ManualInsertWalletTx(p)
  \/ ManualUpdateTx(p)

Step(p) ==
  \/ SuccessSelectTx(p)
  \/ SuccessUpdateTx(p)
  \/ SuccessSelectWallet(p)
  \/ SuccessInsertWallet(p)
  \/ SuccessUpdateWallet(p)
  \/ SuccessInsertWalletTx(p)
  \/ SuccessNotify(p)
  \/ SuccessCollectFee(p)
  \/ ManualStep(p)
  \/ Retire(p)

FailedStep(p) ==
  \/ FailedUpdateTx(p)
  \/ FailedSelectTx(p)
  \/ FailedNotify(p)

Reconciler ==
  \/ Tick
  \/ Fetch
  \/ \E l \in 1..MaxRequests : LoopReceive(l) \/ LoopRefetch(l)

\* requests served one after the other: a request arrives when none is running
Next ==
  \/ \E p \in Procs : \E body \in Bodies(Refs(tx)) : \E signature \in Signatures(body) :
       Quiet /\ CallbackArrive(p, body, signature)
  \/ \E p \in Procs : \E reference \in Refs(tx) : Quiet /\ ManualArrive(p, reference)
  \/ \E l \in 1..MaxRequests : \E p \in Procs : Quiet /\ LoopInvoke(l, p)
  \/ \E p \in Procs : Step(p) \/ FailedStep(p)
  \/ Reconciler

Spec == Init /\ [][Next]_vars

\* requests served at the same time: verified charge.success deliveries and
\* manual credits of the one transaction, no database call failing
InitRace ==
  /\ failures = MaxFailures
  /\ NoArgs
  /\ \/ World(ProcessorSecret, "u1", OneRow("wallet_topup"), HasWallet)
     \/ World(ProcessorSecret, "u1", OneRow("wallet_topup"), NoWallets)

SuccessBody(reference) == <<"json", Envelope("charge.success", reference)>>

\* each slot serves one request
SlotsLeft == served < MaxProcs

NextRace ==
  \/ \E p \in Procs : \E reference \in DOMAIN tx :
       SlotsLeft /\ CallbackArrive(p, SuccessBody(reference),
                                   HmacSha512Hex(ProcessorSecret, SuccessBody(reference)))
  \/ \E p \in Procs : \E reference \in DOMAIN tx : SlotsLeft /\ ManualArrive(p, reference)
  \/ \E l \in 1..MaxRequests : \E p \in Procs : SlotsLeft /\ LoopInvoke(l, p)
  \/ \E p \in Procs : Step(p)
  \/ Reconciler

SpecRace == InitRace /\ [][NextRace]_vars

(* ------------- the reconciler alone: no webhook deliveries ------------ *)

\* two pending payments of the signed-in user, both created at the start
TwoStale == ("ref_a" :> Row("u1", "wallet_topup", 0)) @@ ("ref_b" :> Row("u1", "other", 0))

InitPoll ==
  /\ failures = 0
  /\ NoArgs
  /\ \/ World(ProcessorSecret, "u1", TwoStale, HasWallet)
     \/ World(ProcessorSecret, "u1", OneRow("wallet_topup"), NoWallets)

\* one client runs the hook; only its loops call manual-credit-payment
NextPoll ==
  \/ \E l \in 1..MaxRequests : \E p \in Procs : LoopInvoke(l, p)
  \/ \E p \in Procs : ManualStep(p)
  \/ Reconciler

SpecPoll == InitPoll /\ [][NextPoll]_vars

(* ------------- the reconciler alone, as long as it polls -------------- *)

\* one pending payment of the signed-in user, whose wallet is there or not
InitLive ==
  /\ failures = 0
  /\ NoArgs
  /\ \/ World(ProcessorSecret, "u1", OneRow("wallet_topup"), HasWallet)
     \/ World(ProcessorSecret, "u1", OneRow("wallet_topup"), NoWallets)

Invoke == \E l \in 1..MaxRequests : \E p \in Procs : LoopInvoke(l, p)
Serve == \E p \in Procs : ManualStep(p)
Resume == \E l \in 1..MaxRequests : LoopReceive(l) \/ LoopRefetch(l)

NextLive == Tick \/ Poll \/ Invoke \/ Serve \/ Resume

\* time passes, the interval timer fires, the edge function runs to its
\* response, and an awaited promise that is settled resumes the loop
Fairness ==
  /\ WF_vars(Tick)
  /\ WF_vars(Poll)
  /\ WF_vars(Invoke)
  /\ WF_vars(Serve)
  /\ WF_vars(Resume)

SpecLive == InitLive /\ [][NextLive]_vars /\ Fairness

(* -------------------- the stuck-payments query alone ------------------ *)

\* nothing deployed: no secret, no user, empty tables
Nothing == World("", "", <<>>, NoWallets) /\ failures = 0

Users == {"u1", "u2"}

\* the rows a table may hold under one reference
Rows ==
  [user_id : Users, purpose : {"wallet_topup"}, amount : {RowAmount},
   transaction_type : {"paystack", "mpesa"}, status : {"pending", "success", "failed"},
   created_at : 0..(MaxClock + 1), result_code : {-1}]

InitQuery ==
  /\ Nothing
  /\ args \in [table : [{"ref_a", "ref_b"} -> Rows], user : {"", "u1"},
               now : FiveMinutes..(FiveMinutes + MaxClock + 1)]
  /\ result = <<>>

\* queryFn on the table, for the user, at the time `now`
RunQuery ==
  /\ result = <<>>
  /\ result' = <<QueryFn(args.table, args.user, args.now)>>
  /\ UNCHANGED <<db, procs, Client, secretKey, wallets0, served, failures, handled, args>>

NextQuery == RunQuery

SpecQuery == InitQuery /\ [][NextQuery]_vars

(* ----------------- the fee computation on its own --------------------- *)

\* the largest event amount examined, in minor units
MaxAmount == 200

Amounts == 1..MaxAmount \cup {EventAmount}

InitFee ==
  /\ Nothing
  /\ args \in [amount : Amounts]
  /\ result = <<>>

\* lines 58-60 on the event's amount
ComputeFee ==
  /\ result = <<>>
  /\ LET amountPaid == AmountPaidDouble(args.amount)
         platformFee == PlatformFeeDouble(amountPaid)
         netAmount == NetAmountDouble(amountPaid, platformFee)
     IN result' = [amountPaid |-> amountPaid, platformFee |-> platformFee,
                   netAmount |-> netAmount]
  /\ UNCHANGED <<db, procs, Client, secretKey, wallets0, served, failures, handled, args>>

NextFee == ComputeFee

SpecFee == InitFee /\ [][NextFee]_vars

(* ------------- failed charges alone: verified charge.failed ----------- *)

\* a payment whose row names no user, and one of u1
OneOrphan == ("ref_a" :> Row("", "wallet_topup", 0)) @@ ("ref_b" :> Row("u1", "other", 1))

\* the reasons the gateway gives in these events: one with a balance, one
\* without, and none
FailureTexts ==
  {GatewayResponseOf("ref_a"), GatewayResponseOf("ref_b"), Absent}

FailedBody(reference, text) ==
  <<"json", WithGatewayResponse(Envelope("charge.failed", reference), text)>>

InitFailed ==
  /\ failures = 0
  /\ NoArgs
  /\ \/ World(ProcessorSecret, "", OneRow("wallet_topup"), HasWallet)
     \/ World(ProcessorSecret, "", OneOrphan, NoWallets)

\* charge.failed events the processor signed, handled one after the other
NextFailed ==
  \/ \E p \in Procs : \E reference \in Refs(tx) : \E text \in FailureTexts :
       Quiet /\ CallbackArrive(p, FailedBody(reference, text),
                               HmacSha512Hex(ProcessorSecret, FailedBody(reference, text)))
  \/ \E p \in Procs : FailedStep(p) \/ Retire(p)

SpecFailed == InitFailed /\ [][NextFailed]_vars

(* ----------------- the failure message on its own --------------------- *)

\* the gateway_response texts tried: a lead, a phrase, white space, a currency,
\* a gap, an amount and a tail, each from a few; and no text at all
GatewayTexts ==
  LET Leads == {<<>>, <<"Y", "o", "u", "r", " ">>}
      Phrases == {BalanceIs, <<"B", "a", "l", "a", "n", "c", "e", " ", "I", "S">>,
                  <<"d", "e", "c", "l", "i", "n", "e", "d">>}
      Blanks == {<<>>, <<" ">>, <<" ", "\t">>}
      Currencies == {Ksh, KES, <<"k", "e", "s">>, <<"U", "S", "D">>, <<>>}
      Gaps == {<<>>, <<" ">>}
      AmountTexts == {<<"3", "5", ".", "0", "0">>, <<"1", ",", "2", "5", "0", ".", "5">>,
                      <<"7">>, <<".", "5">>, <<".">>, <<>>}
      Tails == {<<>>, <<".">>, <<" ", "o", "n", "l", "y">>,
                <<" ", "3", "5", ".", "0", "0">>}
  IN { lead \o phrase \o blank \o currency \o gap \o amount \o tail :
         lead \in Leads, phrase \in Phrases, blank \in Blanks, currency \in Currencies,
         gap \in Gaps, amount \in AmountTexts, tail \in Tails }
       \cup {<<>>, Absent}
Channels == {"mobile_money", "card", "bank"}

InitMessage ==
  /\ Nothing
  /\ args \in [gateway_response : GatewayTexts, channel : Channels]
  /\ result = <<>>

\* lines 211-228 for one event
BuildMessage ==
  /\ result = <<>>
  /\ result' = <<UserMessage(args.gateway_response, args.channel)>>
  /\ UNCHANGED <<db, procs, Client, secretKey, wallets0, served, failures, handled, args>>

NextMessage == BuildMessage

SpecMessage == InitMessage /\ [][NextMessage]_vars

(* ------------------------------ claims ------------------------------- *)

Callbacks == {p \in Procs : procs[p].kind = "callback"}
Manuals == {p \in Procs : procs[p].kind = "manual"}
Answered(p) == procs[p].pc = "done"

\* 97.50 KES, the net amount of a 100 KES payment, in fixed point
Net100 == 39 * 10000

\* the balance a user's wallet started with (0 when it is created lazily)
Balance0(u) == IF u \in DOMAIN wallets0 THEN wallets0[u] ELSE 0

C1_Gate ==
  \A p \in Callbacks : secretKey # "" =>
    LET pr == procs[p]
        genuine == pr.signature = <<secretKey, pr.body>>
    IN /\ (pr.status = 401) <=> ~genuine
       /\ ~genuine => /\ Answered(p) /\ pr.event = ""
                      /\ ~pr.marked /\ ~pr.credited /\ ~pr.logged
       /\ genuine /\ pr.body[1] = "json" => pr.event = pr.body[2].event

C1_NoMutation ==
  (\E p \in Callbacks : procs'[p].status = 401) => db' = db

\* C1: with the secret configured, a callback request is rejected with 401
\* exactly when its x-paystack-signature header differs from the HMAC of the
\* raw body under the secret (an absent header and a signature of another
\* body included); a rejected request reads no event from the body and
\* changes no table, an accepted one goes on to handle the event of its body.
C1_SignatureDecides == [](C1_Gate) /\ [][C1_NoMutation]_vars

\* C1 witness: a request signed by the processor, for another body, was rejected
C1_Witness ==
  \E p \in Callbacks :
    /\ procs[p].status = 401
    /\ procs[p].signature # NoHeader
    /\ procs[p].signature[1] = secretKey

SuccessDone(p) ==
  p \in Callbacks /\ procs[p].event = "charge.success" /\ Answered(p)

Found(p) == procs[p].txn # <<>>
Purpose(p) == procs[p].txn[1].purpose
Owner(p) == procs[p].txn[1].user_id

Balance(u) == IF u \in DOMAIN wallets THEN wallets[u] ELSE 0

\* the wallet_transactions row and the notification of a callback's credit
CallbackRow(r) ==
  [user_id |-> tx[r].user_id, type |-> "deposit", amount |-> Net100,
   status |-> "completed", reference_id |-> r, payment_method |-> ChannelOf(r)]
CallbackNotice(r) ==
  [user_id |-> tx[r].user_id, type |-> "payment_success", reference |-> r,
   amount |-> Net100]
\* the wallet_transactions row of a manual credit
ManualRow(r) ==
  [user_id |-> tx[r].user_id, type |-> "deposit", amount |-> Net100,
   status |-> "completed", reference_id |-> r, payment_method |-> "paystack"]

C2_Credited ==
  \A p \in Procs : SuccessDone(p) =>
    /\ procs[p].credited =>
         /\ Found(p) /\ Purpose(p) \in {"wallet_topup", "other"}
         /\ wallets[Owner(p)] = procs[p].wallet[1] + Net100
    /\ (Found(p) /\ Purpose(p) \in {"wallet_topup", "other"} /\ failures = 0) =>
         /\ procs[p].credited /\ procs[p].logged
         /\ CopiesIn(CallbackRow(procs[p].reference), walletTxs)
              = CopiesIn(<<"charge.success", procs[p].reference>>, handled)
         /\ CopiesIn(CallbackNotice(procs[p].reference), notifications)
              = CopiesIn(<<"charge.success", procs[p].reference>>, handled)

C2_NotCredited ==
  (\E p \in Callbacks :
     /\ procs[p].event = "charge.success" /\ procs[p].pc # "cs_select"
     /\ (~Found(p) \/ Purpose(p) \notin {"wallet_topup", "other"}))
  => (wallets' = wallets /\ walletTxs' = walletTxs)

AllIdle == \A p \in Procs : procs[p].kind = "idle"

Creditable(r) == r \in DOMAIN tx /\ tx[r].purpose \in {"wallet_topup", "other"}
Deliveries(r) ==
  IF Creditable(r) THEN CopiesIn(<<"charge.success", r>>, handled) ELSE 0
ManualCalls(r) ==
  IF r \in DOMAIN tx THEN CopiesIn(<<"manual", r>>, handled) ELSE 0

\* C3: with requests handled one after the other and no database call
\* failing, every handled charge.success delivery of a top-up adds the net
\* amount again: after k deliveries the balance is X + k * N and the
\* reference has k wallet transactions (k = 2: X + 2N, two records).
C3_EveryDeliveryCredits ==
  (AllIdle /\ failures = 0 /\ ManualCalls("ref_a") + ManualCalls("ref_b") = 0) =>
    /\ Balance("u1") = Balance0("u1") + (Deliveries("ref_a") + Deliveries("ref_b")) * Net100
    /\ \A r \in DOMAIN tx :
         Creditable(r) => CopiesIn(CallbackRow(r), walletTxs) = Deliveries(r)

\* C3 witness: the same charge.success was handled twice
C3_Witness ==
  /\ AllIdle /\ failures = 0
  /\ Deliveries("ref_a") = 2
  /\ CopiesIn(CallbackRow("ref_a"), walletTxs) = 2
  /\ Balance("u1") = StartBalance + 2 * Net100

\* C4: with requests handled one after the other and no database call
\* failing, every manual credit call for a transaction adds the net amount and
\* a wallet transaction again, whatever the status the transaction has by then.
C4_EveryCallCredits ==
  (AllIdle /\ failures = 0 /\ Deliveries("ref_a") + Deliveries("ref_b") = 0) =>
    /\ Balance("u1") = Balance0("u1") + (ManualCalls("ref_a") + ManualCalls("ref_b")) * Net100
    /\ \A r \in DOMAIN tx : CopiesIn(ManualRow(r), walletTxs) = ManualCalls(r)

\* C4 witness: two manual credit calls for one reference were answered
C4_Witness ==
  /\ AllIdle /\ failures = 0
  /\ ManualCalls("ref_a") = 2
  /\ tx["ref_a"].status = "success"
  /\ CopiesIn(ManualRow("ref_a"), walletTxs) = 2
  /\ Balance("u1") = Balance0("u1") + 2 * Net100

\* C5: a transaction that is success or failed keeps that status in every
\* step (so no transaction returns to pending either).
C5_TerminalStatusKept ==
  [][\A r \in DOMAIN tx : tx[r].status # "pending" => tx'[r].status = tx[r].status]_vars

Credits == BagCardinality(walletTxs)

C6_Outcome ==
  /\ \A p \in Procs : (Answered(p) /\ procs[p].credited) =>
       /\ procs[p].status = 200
       /\ procs[p].kind = "manual" => procs[p].success
  /\ (\A p \in Procs : ~Running(p)) =>
       /\ Credits = 0 => Balance("u1") = Balance0("u1")
       /\ Credits > 0 =>
            \E j \in 1..Credits : Balance("u1") = Balance0("u1") + j * Net100

C6_WritesWhatItRead ==
  \A p \in Procs :
    (procs[p].pc \in {"cs_wallet_update", "mc_wallet_update"} /\ procs'[p].credited)
      => wallets'[Owner(p)] = procs[p].wallet[1] + Net100

\* C6: every credit writes the balance it read plus its own net amount, so
\* when n credits of N on a balance X have all reported success and written
\* their wallet transactions, the balance is X + j * N for some j from 1 to n,
\* not always X + n * N.
C6_LostUpdate == [](C6_Outcome) /\ [][C6_WritesWhatItRead]_vars

\* C6 witness: two credits reported success, both records are written, and
\* the balance holds one of them
C6_Witness ==
  /\ \E p, q \in Procs :
       /\ p # q
       /\ Answered(p) /\ procs[p].credited /\ procs[p].status = 200
       /\ Answered(q) /\ procs[q].credited /\ procs[q].status = 200
  /\ Credits = 2
  /\ Balance("u1") = StartBalance + Net100

\* C7: where the user's wallet exists, every manual credit the reconciler
\* invokes credits the wallet and records a wallet transaction, also when a
\* charge.success callback marked the transaction success (and credited it)
\* after the reconciler fetched it as stuck.
C7_ReconcilerCreditsAnyway ==
  \A p \in Manuals :
    (procs[p].invoked /\ Answered(p) /\ "u1" \in DOMAIN wallets0) =>
      /\ procs[p].status = 200 /\ procs[p].success
      /\ procs[p].credited /\ procs[p].logged

\* C7 witness: one reference credited by the callback handler and then by the
\* manual credit the reconciler invoked for it
C7_Witness ==
  /\ \E p \in Manuals :
       /\ procs[p].invoked /\ Answered(p) /\ procs[p].credited
       /\ procs[p].txn[1].status = "success"
       /\ CopiesIn(CallbackRow(procs[p].reference), walletTxs) = 1
       /\ CopiesIn(ManualRow(procs[p].reference), walletTxs) = 1
  /\ Balance("u1") = StartBalance + 2 * Net100

\* C8: a manual credit credits a wallet for exactly the purposes for which the
\* callback handler does, and the same net amount.
C8_SameCrediting ==
  \A p \in Manuals : procs[p].credited =>
    /\ CreditsWallet(Purpose(p))
    /\ NetAmount(procs[p].amount) = NetAmount(AmountPaid(EventAmount))

\* C9: a manual credit answered 200 with success has increased the balance,
\* recorded the wallet transaction and set the transaction to success; any
\* other answer is 400 with success false.
C9_SuccessMeansAllDone ==
  \A p \in Manuals : Answered(p) =>
    IF procs[p].status = 200 /\ procs[p].success
    THEN /\ procs[p].credited /\ procs[p].logged /\ procs[p].marked
         /\ tx[procs[p].reference].status = "success"
    ELSE procs[p].status = 400 /\ ~procs[p].success

Unknown(p) == p \in Manuals /\ procs[p].reference \notin DOMAIN tx

C10_Answer ==
  \A p \in Procs : (Unknown(p) /\ Answered(p)) =>
    /\ procs[p].status = 400 /\ ~procs[p].success
    /\ ~procs[p].credited /\ ~procs[p].logged /\ ~procs[p].marked

C10_Frame == (\E p \in Procs : Unknown(p)) => db' = db

\* C10: a manual credit call whose reference has no transaction is answered
\* 400 with success false and changes no table: no wallet is created, no
\* balance, wallet transaction or transaction status changes.
C10_UnknownReferenceChangesNothing == [](C10_Answer) /\ [][C10_Frame]_vars

\* C10 witness: a call for a reference without a row was answered
C10_Witness ==
  \E p \in Procs : Unknown(p) /\ Answered(p) /\ procs[p].status = 400

Genuine(p) == procs[p].signature = <<secretKey, procs[p].body>>

C11_Answer ==
  \A p \in Callbacks :
    /\ procs[p].status \in {0, 200, 401, 500}
    /\ Answered(p) =>
         /\ (procs[p].status = 500) <=> (secretKey = "")
         /\ (procs[p].status = 401) <=> (secretKey # "" /\ ~Genuine(p))
         /\ (procs[p].status = 200) <=> (secretKey # "" /\ Genuine(p))
         /\ procs[p].status = 200 => procs[p].text = "OK"
         /\ procs[p].status = 500 =>
              /\ procs[p].event = "" /\ procs[p].txn = <<>>
              /\ ~procs[p].marked /\ ~procs[p].credited

C11_NothingWithoutSecret ==
  (secretKey = "" /\ \E p \in Procs : procs'[p].kind = "callback" /\ procs'[p] # procs[p])
    => db' = db

\* C11: every callback request is answered 200 OK, except 401 when the secret
\* is configured and the signature does not match and 500 when the secret is
\* not configured, in which case no event is read and no table changes; a
\* verified request whose processing throws (body that is no JSON, event
\* without customer) or whose database calls fail is answered 200 OK too.
C11_AlwaysOk == [](C11_Answer) /\ [][C11_NothingWithoutSecret]_vars

\* C11 witness: a verified charge.success without customer threw before any
\* database call and was answered 200 OK
C11_Witness ==
  \E p \in Callbacks :
    /\ Answered(p) /\ Genuine(p)
    /\ procs[p].body = <<"json", NoCustomer(Envelope("charge.success", "ref_a"))>>
    /\ procs[p].status = 200 /\ procs[p].text = "OK"
    /\ tx["ref_a"].status = "pending"

\* the collect_platform_fee call a charge.success event asks for
FeeCallOf(pr) ==
  /\ Len(pr.feeCalls) = 1
  /\ pr.feeCalls[1].p_payment_reference = pr.reference
  /\ pr.feeCalls[1].p_user_id = pr.txn[1].user_id
  /\ pr.feeCalls[1].p_amount * 1000 = (pr.amount * 40) * 25

\* C12 as the spec states it: every verified charge.success event makes the
\* fee collection call exactly once.
C12_FeeAlwaysAttempted ==
  \A p \in Procs : SuccessDone(p) => FeeCallOf(procs[p])

\* C12 (amended): a verified charge.success event whose transaction lookup
\* succeeded makes the collect_platform_fee call exactly once, with 2.5% of the
\* amount paid and the event's reference, whether or not the wallet was
\* credited; an event whose lookup found no transaction, or whose handler threw
\* before the lookup, makes no such call.
C12_FeeAttemptedWhenFound ==
  \A p \in Procs : SuccessDone(p) =>
    IF Found(p) THEN FeeCallOf(procs[p]) ELSE procs[p].feeCalls = <<>>

\* C12 witness: the fee call was made for a transaction whose wallet was not
\* credited
C12_Witness ==
  \E p \in Procs :
    /\ SuccessDone(p) /\ Found(p) /\ ~procs[p].credited
    /\ FeeCallOf(procs[p])
    /\ CopiesIn(procs[p].feeCalls[1], fees) >= 1

Paid == result.amountPaid
Fee == result.platformFee
Net == result.netAmount

\* C13 as the spec states it: fee + net is the amount paid and the net amount
\* is 0.975 times the amount paid, for every amount.
C13_ExactForEveryAmount ==
  result # <<>> =>
    /\ DoubleAdd(Fee, Net) = Paid
    /\ Net = DoubleMul(Paid, DoubleDiv(975, 1000))

\* C13 (amended): for an event amount A in minor units the handler computes,
\* in double precision, amount paid = A / 100, fee = amount paid * 0.025 and
\* net = amount paid - fee; the fee is A / 4000 and the net amount 39 A / 4000
\* (A / 100 * 0.975) to within one unit in the last place, and so is fee + net
\* the amount paid; for A = 10000 they are 100, 2.5 and 97.5 exactly.
C13_WithinTolerance ==
  result # <<>> =>
    /\ Paid = DoubleDiv(args.amount, 100)
    /\ WithinOneUlp(Fee, DoubleDiv(args.amount, 4000))
    /\ WithinOneUlp(Net, DoubleDiv(args.amount * 39, 4000))
    /\ WithinOneUlp(Net, DoubleMul(Paid, DoubleDiv(975, 1000)))
    /\ WithinOneUlp(Paid, DoubleAdd(Fee, Net))
    /\ args.amount = EventAmount =>
         /\ Paid = DoubleDiv(AmountPaid(EventAmount), 4000)
         /\ Paid = DoubleDiv(100, 1)
         /\ Fee = DoubleDiv(PlatformFee(AmountPaid(EventAmount)), 4000)
         /\ Fee = DoubleDiv(5, 2)
         /\ Net = DoubleDiv(NetAmount(AmountPaid(EventAmount)), 4000)
         /\ Net = DoubleDiv(195, 2)
         /\ DoubleAdd(Fee, Net) = Paid

\* C13 witness: for A = 153 (1.53) fee + net is 1.5300000000000002, one unit
\* in the last place above the amount paid
C13_Witness ==
  /\ result # <<>>
  /\ args.amount = 153
  /\ DoubleAdd(Fee, Net) # Paid
  /\ WithinOneUlp(Paid, DoubleAdd(Fee, Net))

\* the references of the rows of `u` in `t` that are paystack payments, still
\* pending, and created more than five minutes before `now`
Stuck(t, u, now) ==
  {r \in DOMAIN t : /\ t[r].user_id = u
                    /\ t[r].transaction_type = "paystack"
                    /\ t[r].status = "pending"
                    /\ now - t[r].created_at > FiveMinutes}

\* C14: the query returns, each once, exactly the transactions of the current
\* user that are of type paystack, pending and created strictly more than
\* five minutes before the fetch (so not one created four or exactly five
\* minutes before), and nothing when no user is signed in.
C14_ExactlyTheStuck ==
  result # <<>> =>
    LET got == result[1] IN
    IF args.user = "" THEN got = <<>>
    ELSE /\ {got[i] : i \in DOMAIN got} = Stuck(args.table, args.user, args.now)
         /\ Len(got) = Cardinality(Stuck(args.table, args.user, args.now))

\* C14 witness: of two pending paystack payments of the user, the one created
\* six minutes ago is returned and the one created four minutes ago is not
C14_Witness ==
  /\ result = << <<"ref_a">> >>
  /\ args.user = "u1"
  /\ args.table["ref_a"].user_id = "u1" /\ args.table["ref_b"].user_id = "u1"
  /\ args.table["ref_a"].status = "pending" /\ args.table["ref_b"].status = "pending"
  /\ args.table["ref_a"].transaction_type = "paystack"
  /\ args.table["ref_b"].transaction_type = "paystack"
  /\ args.now - args.table["ref_a"].created_at = 6
  /\ args.now - args.table["ref_b"].created_at = 4

IsPrefix(a, b) == Len(a) <= Len(b) /\ SubSeq(b, 1, Len(a)) = a

\* the loop has had the answer for its last entry
Complete(loop) ==
  /\ loop.i = Len(loop.items)
  /\ \/ loop.pc = "refetch"
     \/ loop.pc = "await" /\ procs[loop.proc].pc = "done"

C15_InOrder ==
  /\ \A l \in DOMAIN loops :
       LET loop == loops[l]
           invoked == IF loop.pc = "invoke" THEN loop.i - 1 ELSE loop.i
           answered == IF loop.pc = "refetch" THEN loop.i ELSE loop.i - 1
       IN /\ loop.calls = SubSeq(loop.items, 1, invoked)
          /\ Len(loop.answers) = answered
          /\ loop.pc = "await" =>
               /\ procs[loop.proc].kind = "manual" /\ procs[loop.proc].invoked
               /\ procs[loop.proc].reference = loop.items[loop.i]
  /\ \A p \in Procs : procs[p].invoked =>
       Cardinality({l \in DOMAIN loops : loops[l].pc = "await" /\ loops[l].proc = p}) = 1

C15_Continues ==
  \A l \in DOMAIN loops : ~Complete(loops[l]) =>
    \E k \in DOMAIN loops' :
      /\ loops'[k].items = loops[l].items
      /\ IsPrefix(loops[l].calls, loops'[k].calls)
      /\ IsPrefix(loops[l].answers, loops'[k].answers)

\* C15: a reaction cycle invokes manual-credit-payment for the entries of its
\* set in order, each once and with the entry's reference, has at most one
\* invocation outstanding, and goes on to the next entry whatever the answer:
\* it ends only after the answer for its last entry.
C15_OneByOne == [](C15_InOrder) /\ [][C15_Continues]_vars

\* C15 witness: the call for the first of two entries was answered 400 and
\* the cycle invoked the function for the second
C15_Witness ==
  \E l \in DOMAIN loops :
    /\ loops[l].items = <<"ref_a", "ref_b">>
    /\ loops[l].answers = <<400>>
    /\ loops[l].calls = <<"ref_a", "ref_b">>

\* the wallet_transactions rows written for a reference, by either function
CreditsOf(r) == CopiesIn(CallbackRow(r), walletTxs) + CopiesIn(ManualRow(r), walletTxs)

\* a verified charge.success event for the reference reached the handler
Delivered(r) ==
  \/ CopiesIn(<<"charge.success", r>>, handled) > 0
  \/ \E p \in Callbacks :
       Genuine(p) /\ procs[p].event = "charge.success" /\ procs[p].reference = r

\* C19: a wallet is credited for a reference only if a verified
\* charge.success event for that reference was delivered.
C19_OnlyPaidIsCredited ==
  /\ \A r \in DOMAIN tx : CreditsOf(r) > 0 => Delivered(r)
  /\ \A p \in Procs : procs[p].credited => Delivered(procs[p].reference)
  /\ Balance("u1") > Balance0("u1") => \E r \in DOMAIN tx : Delivered(r)

\* C20: with one reconciler client, no webhook deliveries and no failing
\* database call, manual-credit-payment is called at most once for each
\* reference and each reference is credited at most once.
C20_SubmittedAtMostOnce ==
  failures = 0 =>
    \A r \in DOMAIN tx :
      /\ ManualCalls(r) <= 1
      /\ CopiesIn(ManualRow(r), walletTxs) <= 1

\* the completed deposit records of a user, and the sum of their amounts
Deposits(u) ==
  {row \in BagToSet(walletTxs) :
     row.user_id = u /\ row.type = "deposit" /\ row.status = "completed"}

RECURSIVE SumOfAmounts(_)
SumOfAmounts(rows) ==
  IF rows = {} THEN 0
  ELSE LET row == CHOOSE row \in rows : TRUE
       IN row.amount * CopiesIn(row, walletTxs) + SumOfAmounts(rows \ {row})

\* C16: whenever no request is being served, what each wallet gained since the
\* start is the sum of the amounts of its user's completed deposit records.
C16_BalanceIsSumOfDeposits ==
  AllIdle =>
    \A u \in DOMAIN wallets : wallets[u] - Balance0(u) = SumOfAmounts(Deposits(u))

(* ------------------- C17: a failed charge is recorded ----------------- *)

\* the failure notifications about reference r, with their multiplicity
FailureNotes(r) ==
  LET rows == {row \in BagToSet(notifications) :
                 row.type = "payment_failed" /\ row.reference = r}
  IN [row \in rows |-> CopiesIn(row, notifications)]

\* the message the handler owes the event request p carries
MessageOf(p) ==
  UserMessage(JsonParse(procs[p].body).data.gateway_response,
              JsonParse(procs[p].body).data.channel)

\* request p is a charge.failed event whose update has been issued
FailedUpdated(p) ==
  /\ procs[p].kind = "callback" /\ procs[p].event = "charge.failed"
  /\ procs[p].pc \in {"cf_select", "cf_notify", "done"}

FailedAnswered(p) == FailedUpdated(p) /\ procs[p].pc = "done"

HasOwner(r) == r \in DOMAIN tx /\ tx[r].user_id # ""

C17_Recorded ==
  failures = 0 =>
    /\ \A p \in Procs : FailedUpdated(p) /\ procs[p].reference \in DOMAIN tx =>
          /\ tx[procs[p].reference].status = "failed"
          /\ tx[procs[p].reference].result_code = 1
          /\ tx[procs[p].reference].result_desc = MessageOf(p)
    /\ \A p \in Procs : FailedAnswered(p) /\ HasOwner(procs[p].reference) =>
          [user_id |-> tx[procs[p].reference].user_id, type |-> "payment_failed",
           message |-> MessageOf(p), reference |-> procs[p].reference,
           amount |-> tx[procs[p].reference].amount] \in BagToSet(notifications)
    /\ \A r \in Refs(tx) :
          /\ BagCardinality(FailureNotes(r))
               = IF HasOwner(r) THEN CopiesIn(<<"charge.failed", r>>, handled) ELSE 0
          /\ \A row \in DOMAIN FailureNotes(r) : row.user_id = tx[r].user_id

\* a step of a charge.failed request touches the row of its reference only,
\* and nothing at all if there is none
C17_OnlyItsRow ==
  \A p \in Procs :
    procs[p].kind = "callback" /\ procs[p].event = "charge.failed" /\ procs'[p] # procs[p] =>
      /\ \A r \in DOMAIN tx : r # procs[p].reference => tx'[r] = tx[r]
      /\ procs[p].reference \notin DOMAIN tx => db' = db
      /\ ~HasOwner(procs[p].reference) => notifications' = notifications
      /\ <<wallets, walletTxs, fees>>' = <<wallets, walletTxs, fees>>

IsTwoDecimals(text) ==
  /\ Len(text) >= 4
  /\ text[Len(text) - 2] = "."
  /\ \A i \in DOMAIN text : i # Len(text) - 2 => IsDigit(text[i])

ReportsBalance(message) ==
  /\ Len(message) >= 5
  /\ message[1] = "Payment failed: Insufficient "
  /\ message[2] \in {"mobile money", "account"}
  /\ message[3] = " balance\nAvailable balance: KES "
  /\ IsTwoDecimals(SubSeq(message, 4, Len(message) - 1))
  /\ message[Len(message)] = "\nPlease top up your account or try a smaller amount."

IsMobileMoneyMessage(message) ==
  /\ Len(message) >= 2
  /\ message[1] = "Mobile Money transaction failed\n"
  /\ message[Len(message)] = "\nPlease try again or contact your provider."

\* C18: the message built for a charge.failed event reports the balance in
\* KES with two decimals and a retry suggestion if a balance was extracted
\* from the gateway text, whatever the channel; otherwise it is the generic
\* mobile-money message if the channel is mobile_money; otherwise it is the
\* gateway text unchanged.
C18_ThreeWayRule ==
  result # <<>> =>
    IF AvailableBalance(ParsedMessage(args.gateway_response)) # Null
    THEN ReportsBalance(result[1])
    ELSE IF args.channel = "mobile_money" THEN IsMobileMoneyMessage(result[1])
    ELSE result[1] = args.gateway_response

(* --------------- C23: what a failed charge leaves alone --------------- *)

\* request p is a charge.failed event being handled
HandlingFailed(p) ==
  procs[p].kind = "callback" /\ procs[p].event = "charge.failed" /\ Running(p)

\* the notifications grew by at most one row
AtMostOneMore(before, after) ==
  \/ after = before
  \/ \E row \in BagToSet(after) : after = Put(before, row)

C23_StepFrame ==
  \A p \in Procs :
    HandlingFailed(p) /\ procs'[p] # procs[p] =>
      /\ wallets' = wallets
      /\ walletTxs' = walletTxs
      /\ fees' = fees
      /\ \A r \in DOMAIN tx : r # procs[p].reference => tx'[r] = tx[r]
      /\ DOMAIN tx' = DOMAIN tx
      /\ AtMostOneMore(notifications, notifications')
      /\ notifications' # notifications => procs'[p].pc = "done"

\* no more failure notifications about a reference than events answered
C23_OnePerEvent ==
  \A r \in Refs(tx) :
    BagCardinality(FailureNotes(r)) <= CopiesIn(<<"charge.failed", r>>, handled)

\* C23: no step of the handling of a charge.failed event changes a wallet
\* balance, the wallet_transactions log or the collected fees; a step writes
\* at most the transaction row of the event's reference and at most one
\* notification, and that as the last write of the event, so that an event
\* leaves at most one notification.
C23_FailedChargeFrame == [](C23_OnePerEvent) /\ [][C23_StepFrame]_vars

\* C23 witness: a charge.failed event was answered for a payment that had
\* been credited before: the wallet and its log hold the credit, the fee was
\* collected, the row is failed and the notification is there
C23_Witness ==
  \E p \in Procs :
    /\ FailedAnswered(p) /\ Genuine(p)
    /\ procs[p].reference \in DOMAIN tx
    /\ tx[procs[p].reference].status = "failed"
    /\ BagCardinality(FailureNotes(procs[p].reference)) = 1
    /\ CreditsOf(procs[p].reference) = 1
    /\ Balance("u1") > Balance0("u1")
    /\ fees # EmptyBag

(* ------------- C22: a successful top-up has been credited ------------- *)

\* C22: once no request is being served, the owner's wallet of every
\* wallet top-up transaction with status success holds at least the net
\* amount of that transaction more than at the start, whatever calls failed.
C22_SuccessWasCredited ==
  AllIdle =>
    \A r \in DOMAIN tx :
      tx[r].purpose = "wallet_topup" /\ tx[r].status = "success" =>
        Balance(tx[r].user_id) >= Balance0(tx[r].user_id) + NetAmount(tx[r].amount)

(* ------------- C21: a stuck payment is credited in the end ------------ *)

\* the payment is one the query selects now
IsStuck(r) == \E i \in DOMAIN QueryFn(tx, user, clock) : QueryFn(tx, user, clock)[i] = r

\* the payment is success and the owner's wallet holds its net amount
Settled(r) ==
  /\ tx[r].status = "success"
  /\ Balance(tx[r].user_id) >= Balance0(tx[r].user_id) + NetAmount(tx[r].amount)

\* C21: while the client polls, a payment of its user that is pending for
\* more than five minutes is in the end success with the wallet credited
\* (database calls fail MaxFailures times at most, so a manual credit call
\* for it succeeds once it is tried often enough).
C21_StuckIsSettled == IsStuck("ref_a") ~> Settled("ref_a")
====
